---- MODULE Spec2Model ----
(***************************************************************************)
(* Model of flask_smorest/err_handler.py: the Error value type, the        *)
(* webargs validation-error adapter and the two error handlers registered  *)
(* with the Flask application.                                             *)
(*                                                                         *)
(* Python values are modelled as tagged records so that None, "", 0 and    *)
(* non-string values stay distinguishable and Python's truthiness (`or`,   *)
(* `if x:`) and str() are computed, not assumed.                           *)
(***************************************************************************)
EXTENDS Integers, Sequences, FiniteSets, TLC

(***************************************************************************)
(* Bounds of the model.                                                    *)
(***************************************************************************)
\* longest location_type -> fields mapping handed to the adapter
MaxLocs == 2
\* longest field -> messages mapping inside one location
MaxFields == 2

(***************************************************************************)
(* Python scalar values: None, str, int.                                   *)
(***************************************************************************)
None == [t |-> "none", s |-> "", n |-> 0]
StrVal(x) == [t |-> "str", s |-> x, n |-> 0]
IntVal(k) == [t |-> "int", s |-> "", n |-> k]

\* Python truthiness of a scalar
Truthy(v) == (v.t = "str" /\ v.s # "") \/ (v.t = "int" /\ v.n # 0)

\* Python `a or b`
Or(a, b) == IF Truthy(a) THEN a ELSE b

Digit(d) ==
  CASE d = 0 -> "0" [] d = 1 -> "1" [] d = 2 -> "2" [] d = 3 -> "3"
    [] d = 4 -> "4" [] d = 5 -> "5" [] d = 6 -> "6" [] d = 7 -> "7"
    [] d = 8 -> "8" [] OTHER -> "9"

RECURSIVE IntToStr(_)
IntToStr(k) == IF k < 10 THEN Digit(k) ELSE IntToStr(k \div 10) \o Digit(k % 10)

\* Python str(v) for the scalars of the model (non-negative ints)
PyStr(v) ==
  CASE v.t = "str" -> v.s
    [] v.t = "int" -> IntToStr(v.n)
    [] OTHER -> "None"

(***************************************************************************)
(* Python list values used for `errors`: None or a list of sub-errors.     *)
(***************************************************************************)
NoList == [t |-> "none", l |-> <<>>]
List(q) == [t |-> "list", l |-> q]
ListTruthy(v) == v.t = "list" /\ v.l # <<>>

\* error messages of one field: a string or a list of strings
MsgStr(x) == [t |-> "str", s |-> x, l |-> <<>>]
MsgList(q) == [t |-> "list", s |-> "", l |-> q]

(***************************************************************************)
(* Header values: no headers returned at all, or a mapping.                *)
(***************************************************************************)
NoHeaders == [t |-> "absent", h |-> <<>>]
Headers(q) == [t |-> "dict", h |-> q]

(***************************************************************************)
(* class Error: class-level attributes (lines 14-17).                      *)
(***************************************************************************)
ClassDefaults ==
  [code |-> IntVal(400),
   msg |-> StrVal("Something went wrong"),
   error_type |-> StrVal("ApiException"),
   reason |-> StrVal("")]

\* Error.__init__ (lines 19-33): c is the class namespace the instance
\* falls back to.  The instance never gets a `code` attribute of its own.
Error_init(c, message, code, errors, error_type, reason) ==
  [message |-> StrVal(PyStr(Or(message, c.msg))),
   errors |-> IF ListTruthy(errors) THEN errors ELSE List(<<>>),
   error_type |-> Or(error_type, c.error_type),
   status_code |-> Or(code, c.code),
   reason |-> Or(reason, c.reason)]

\* to_dict with line 43's test dropped: the reason is always emitted
to_dict_AlwaysReason(e) ==
  [keys |-> {"code", "message", "error_type", "reason"}
              \cup (IF ListTruthy(e.errors) THEN {"errors"} ELSE {}),
   code |-> e.status_code,
   message |-> e.message,
   error_type |-> e.error_type,
   reason |-> e.reason,
   errors |-> IF ListTruthy(e.errors) THEN e.errors ELSE NoList]

\* Error.to_dict (lines 35-47): the value under "error".  `keys` is the
\* set of keys present; a key that is absent carries a neutral value.
to_dict(e) ==
  [keys |-> {"code", "message", "error_type"}
              \cup (IF Truthy(e.reason) THEN {"reason"} ELSE {})
              \cup (IF ListTruthy(e.errors) THEN {"errors"} ELSE {}),
   code |-> e.status_code,
   message |-> e.message,
   error_type |-> e.error_type,
   reason |-> IF Truthy(e.reason) THEN e.reason ELSE None,
   errors |-> IF ListTruthy(e.errors) THEN e.errors ELSE NoList]

(***************************************************************************)
(* convert_webargs_errors (lines 85-111).                                  *)
(* messages: [t |-> "dict", locs |-> <<[location_type, fields]>>] or       *)
(*           [t |-> "other", ...] for anything that is not a dict;         *)
(* fields:   [t |-> "dict", items |-> <<[field, messages]>>] or "other".   *)
(* Sequences keep the dicts' iteration order.                              *)
(***************************************************************************)
NotADict == [t |-> "other", locs |-> <<>>]
MessagesDict(q) == [t |-> "dict", locs |-> q]
FieldsOther == [t |-> "other", items |-> <<>>]
FieldsDict(q) == [t |-> "dict", items |-> q]

\* the inner loop with errors.insert(0, ...) in place of errors.append(...)
RECURSIVE FieldLoop_Prepend(_, _, _, _)
FieldLoop_Prepend(errors, location_type, items, k) ==
  IF k > Len(items) THEN errors
  ELSE FieldLoop_Prepend(
         <<[location |-> items[k].field,
            location_type |-> location_type,
            messages |-> items[k].messages]>> \o errors,
         location_type, items, k + 1)

\* inner loop, lines 98-105: append one error per field, from item k on
RECURSIVE FieldLoop(_, _, _, _)
FieldLoop(errors, location_type, items, k) ==
  IF k > Len(items) THEN errors
  ELSE FieldLoop(
         Append(errors,
                [location |-> items[k].field,
                 location_type |-> location_type,
                 messages |-> items[k].messages]),
         location_type, items, k + 1)

\* outer loop, lines 96-97: from location k on
RECURSIVE LocationLoop(_, _, _)
LocationLoop(errors, locs, k) ==
  IF k > Len(locs) THEN errors
  ELSE LocationLoop(
         IF locs[k].fields.t = "dict"
           THEN FieldLoop(errors, locs[k].location_type, locs[k].fields.items, 1)
           ELSE errors,
         locs, k + 1)

convert_webargs_errors(messages) ==
  [code |-> IntVal(400),
   errors |-> List(IF messages.t = "dict"
                     THEN LocationLoop(<<>>, messages.locs, 1)
                     ELSE <<>>),
   error_type |-> StrVal("SchemaFieldsException"),
   message |-> StrVal("Request input schema is invalid")]

(***************************************************************************)
(* handle_http_exception (lines 116-160), split at its two results.        *)
(* error: [code, name, data]; data is None or a dict, modelled as          *)
(* [t, keys, message, errors, messages, headers] with `keys` the keys      *)
(* present ("other" stands for any key the handler does not look at).      *)
(***************************************************************************)
NoData ==
  [t |-> "none", keys |-> {}, message |-> None, errors |-> NoList,
   messages |-> NotADict, headers |-> NoHeaders]

\* `if data:` (line 145): None and the empty dict are falsy
DataTruthy(data) == data.t = "dict" /\ data.keys # {}

\* the merge with setdefault semantics for "code": the payload's code stays
PayloadUpdate_KeepCode(payload, fragment) ==
  [keys |-> payload.keys \cup {"code", "errors", "error_type", "message"},
   code |-> payload.code,
   error_type |-> fragment.error_type,
   message |-> fragment.message,
   errors |-> fragment.errors]

\* dict.update (line 155): every key of the fragment overwrites the payload
PayloadUpdate(payload, fragment) ==
  [keys |-> payload.keys \cup {"code", "errors", "error_type", "message"},
   code |-> fragment.code,
   error_type |-> fragment.error_type,
   message |-> fragment.message,
   errors |-> fragment.errors]

\* the seed of line 140, shared by the variants below
PayloadSeed(error) ==
  [keys |-> {"code", "error_type"},
   code |-> error.code,
   error_type |-> error.name,
   message |-> None,
   errors |-> NoList]

\* lines 147-148 moved after line 155: data["message"] is applied last
http_payload_MessageLast(error) ==
  LET data == error.data
      seed == PayloadSeed(error)
      merged ==
        IF "errors" \in data.keys
          THEN [seed EXCEPT !.keys = @ \cup {"errors"}, !.errors = data.errors]
        ELSE IF "messages" \in data.keys
          THEN [keys |-> seed.keys \cup {"code", "errors", "error_type", "message"},
                code |-> convert_webargs_errors(data.messages).code,
                error_type |-> convert_webargs_errors(data.messages).error_type,
                message |-> convert_webargs_errors(data.messages).message,
                errors |-> convert_webargs_errors(data.messages).errors]
        ELSE seed
  IN IF ~DataTruthy(data) THEN seed
     ELSE IF "message" \in data.keys
       THEN [merged EXCEPT !.keys = @ \cup {"message"}, !.message = data.message]
     ELSE merged

\* line 154 with `if` in place of `elif`: "messages" is merged although
\* "errors" is present
http_payload_IfMessages(error) ==
  LET data == error.data
      seed == PayloadSeed(error)
      withMessage ==
        IF "message" \in data.keys
          THEN [seed EXCEPT !.keys = @ \cup {"message"}, !.message = data.message]
          ELSE seed
      withErrors ==
        IF "errors" \in data.keys
          THEN [withMessage EXCEPT !.keys = @ \cup {"errors"}, !.errors = data.errors]
          ELSE withMessage
  IN IF ~DataTruthy(data) THEN seed
     ELSE IF "messages" \in data.keys
       THEN [keys |-> withErrors.keys \cup {"code", "errors", "error_type", "message"},
             code |-> convert_webargs_errors(data.messages).code,
             error_type |-> convert_webargs_errors(data.messages).error_type,
             message |-> convert_webargs_errors(data.messages).message,
             errors |-> convert_webargs_errors(data.messages).errors]
     ELSE withErrors

\* line 140 seeding the message with the exception's name
http_payload_NameAsMessage(error) ==
  LET data == error.data
      seed == [PayloadSeed(error) EXCEPT !.keys = @ \cup {"message"},
                                         !.message = error.name]
      withMessage ==
        IF "message" \in data.keys
          THEN [seed EXCEPT !.message = data.message]
          ELSE seed
  IN IF ~DataTruthy(data) THEN seed
     ELSE IF "errors" \in data.keys
       THEN [withMessage EXCEPT !.keys = @ \cup {"errors"}, !.errors = data.errors]
     ELSE IF "messages" \in data.keys
       THEN [keys |-> withMessage.keys \cup {"code", "errors", "error_type", "message"},
             code |-> convert_webargs_errors(data.messages).code,
             error_type |-> convert_webargs_errors(data.messages).error_type,
             message |-> convert_webargs_errors(data.messages).message,
             errors |-> convert_webargs_errors(data.messages).errors]
     ELSE withMessage

\* lines 140-155: the payload handed to Error(**payload)
http_payload(error) ==
  LET data == error.data
      seed == PayloadSeed(error)
      withMessage ==
        IF "message" \in data.keys
          THEN [seed EXCEPT !.keys = @ \cup {"message"}, !.message = data.message]
          ELSE seed
  IN IF ~DataTruthy(data) THEN seed
     ELSE IF "errors" \in data.keys
       THEN [withMessage EXCEPT !.keys = @ \cup {"errors"}, !.errors = data.errors]
     ELSE IF "messages" \in data.keys
       THEN PayloadUpdate(withMessage, convert_webargs_errors(data.messages))
     ELSE withMessage

\* line 157 with `elif` in place of `if`: the headers are read only when
\* the data has neither "errors" nor "messages"
http_headers_Elif(error) ==
  IF /\ DataTruthy(error.data)
     /\ "headers" \in error.data.keys
     /\ "errors" \notin error.data.keys
     /\ "messages" \notin error.data.keys
    THEN error.data.headers
    ELSE Headers(<<>>)

\* lines 139, 157-158: the response headers
http_headers(error) ==
  IF DataTruthy(error.data) /\ "headers" \in error.data.keys
    THEN error.data.headers
    ELSE Headers(<<>>)

\* Error(**payload): keys missing from the payload take the None default
ErrorFromPayload(c, payload) ==
  Error_init(c,
             IF "message" \in payload.keys THEN payload.message ELSE None,
             payload.code,
             IF "errors" \in payload.keys THEN payload.errors ELSE NoList,
             payload.error_type,
             None)

\* line 160: the returned triple
http_result(c, error) ==
  [payload |-> to_dict(ErrorFromPayload(c, http_payload(error))),
   status |-> http_payload(error).code,
   headers |-> http_headers(error)]

\* handle_error_exception (lines 113-114): `error.code` is looked up on the
\* instance, which has no such attribute, so it is the class attribute; the
\* returned tuple has two members, no headers.
app_result(c, e) ==
  [payload |-> to_dict(e), status |-> c.code, headers |-> NoHeaders]

(***************************************************************************)
(* Inputs.                                                                 *)
(***************************************************************************)
SampleSubError ==
  [location |-> "name", location_type |-> "json",
   messages |-> MsgList(<<"Missing data">>)]

\* keyword arguments of Error(...); None is also what an omitted one gets
ErrorArgs ==
  [message : {None, StrVal(""), StrVal("Custom"), IntVal(7)},
   code : {None, IntVal(0), IntVal(404), IntVal(500)},
   errors : {NoList, List(<<>>), List(<<SampleSubError>>)},
   error_type : {None, StrVal(""), StrVal("CustomType")},
   reason : {None, StrVal(""), StrVal("because")}]

NoArgs ==
  [message |-> None, code |-> None, errors |-> NoList,
   error_type |-> None, reason |-> None]

LocationTypes == {"query", "json", "headers"}
Fields == {"name", "age", "id"}

\* what a validator reports for a field: a list of strings or one string
FieldMessages(f) ==
  CASE f = "name" -> MsgList(<<"Missing data">>)
    [] f = "age" -> MsgList(<<"Not a valid integer.", "Must be positive.">>)
    [] OTHER -> MsgStr("Unknown field.")

\* sequences of at most n distinct members of S: a dict's keys in order
DistinctSeqs(S, n) ==
  UNION {{q \in [1..k -> S] : \A i, j \in 1..k : i # j => q[i] # q[j]} : k \in 0..n}

FieldsValues ==
  {FieldsOther} \cup
  {FieldsDict([i \in 1..Len(q) |-> [field |-> q[i], messages |-> FieldMessages(q[i])]]) :
     q \in DistinctSeqs(Fields, MaxFields)}

\* the messages dict with keys q[1], q[2], ... and values fv[1], fv[2], ...
MessagesOver(q, fv) ==
  MessagesDict([i \in 1..Len(q) |-> [location_type |-> q[i], fields |-> fv[i]]])

AgeItem == [field |-> "age", messages |-> FieldMessages("age")]
NameItem == [field |-> "name", messages |-> FieldMessages("name")]
IdItem == [field |-> "id", messages |-> FieldMessages("id")]

\* the "messages" values the HTTP exceptions of the model carry
AbortMessages ==
  {NotADict,
   MessagesDict(<<[location_type |-> "query", fields |-> FieldsDict(<<AgeItem>>)]>>),
   MessagesDict(<<[location_type |-> "json", fields |-> FieldsOther]>>),
   MessagesDict(<<[location_type |-> "json", fields |-> FieldsDict(<<NameItem, AgeItem>>)],
                  [location_type |-> "query", fields |-> FieldsDict(<<IdItem>>)]>>)}

DataKeys == {"message", "errors", "messages", "headers", "other"}
RetryHeaders == Headers(<<<<"X-Retry-After", "5">>>>)

\* exception.data: absent, or a dict with any subset of the keys
DataBags ==
  {NoData} \cup
  UNION {{[t |-> "dict", keys |-> K, message |-> m, errors |-> e,
           messages |-> ms, headers |-> h] :
            m \in (IF "message" \in K
                     THEN {None, StrVal(""), StrVal("Custom"), IntVal(7)}
                     ELSE {None}),
            e \in (IF "errors" \in K
                     THEN {NoList, List(<<>>), List(<<SampleSubError>>)}
                     ELSE {NoList}),
            ms \in (IF "messages" \in K THEN AbortMessages ELSE {NotADict}),
            h \in (IF "headers" \in K THEN {Headers(<<>>), RetryHeaders} ELSE {NoHeaders})} :
           K \in SUBSET DataKeys}

HttpErrors ==
  [code : {None, IntVal(0), IntVal(404), IntVal(500)},
   name : {StrVal("Not Found"), StrVal("")},
   data : DataBags]

\* the inputs of the two-worker specification
FewErrorArgs ==
  {NoArgs,
   [NoArgs EXCEPT !.code = IntVal(404), !.message = StrVal("Custom")],
   [NoArgs EXCEPT !.reason = StrVal("because"), !.errors = List(<<SampleSubError>>)]}

FewHttpErrors ==
  {e \in HttpErrors :
     /\ e.code \in {None, IntVal(404)}
     /\ e.name = StrVal("Not Found")
     /\ e.data.keys \in {{}, {"message", "messages", "headers"}, {"errors", "messages"}}
     /\ e.data.message \in {None, StrVal("Custom")}
     /\ e.data.errors \in {NoList, List(<<SampleSubError>>)}
     /\ e.data.messages \in {NotADict, MessagesDict(<<[location_type |-> "query",
                                                     fields |-> FieldsDict(<<AgeItem>>)]>>)}
     /\ e.data.headers \in {NoHeaders, RetryHeaders}}

(***************************************************************************)
(* State.  Each worker serves one request at a time; the class attributes  *)
(* of Error are the only thing the workers share.                          *)
(***************************************************************************)
VARIABLES
  cls,        \* class attributes of Error
  pc,         \* per worker: where its request stands
  app_args,   \* per worker: the arguments Error was constructed with
  app_err,    \* per worker: the raised Error instance
  http_err,   \* per worker: the raised HTTPException
  conv_arg,   \* per worker: the argument of convert_webargs_errors
  result,     \* per worker: what the handler returned
  fragment    \* per worker: what convert_webargs_errors returned

vars == <<cls, pc, app_args, app_err, http_err, conv_arg, result, fragment>>

Workers == {"w1", "w2"}

NoInst ==
  [message |-> None, errors |-> NoList, error_type |-> None,
   status_code |-> None, reason |-> None]
NoHttp == [code |-> None, name |-> None, data |-> NoData]
NoEnvelope ==
  [keys |-> {}, code |-> None, message |-> None, error_type |-> None,
   reason |-> None, errors |-> NoList]
NoResult == [payload |-> NoEnvelope, status |-> None, headers |-> NoHeaders]
NoFragment == [code |-> None, errors |-> NoList, error_type |-> None, message |-> None]

Init ==
  /\ cls = ClassDefaults
  /\ pc = [w \in Workers |-> "idle"]
  /\ app_args = [w \in Workers |-> NoArgs]
  /\ app_err = [w \in Workers |-> NoInst]
  /\ http_err = [w \in Workers |-> NoHttp]
  /\ conv_arg = [w \in Workers |-> NotADict]
  /\ result = [w \in Workers |-> NoResult]
  /\ fragment = [w \in Workers |-> NoFragment]

\* application code raises Error(**a), a among args: Error.__init__,
\* lines 19-33
RaiseError(w, args) ==
  /\ pc[w] = "idle"
  /\ \E a \in args :
       /\ app_args' = [app_args EXCEPT ![w] = a]
       /\ app_err' = [app_err EXCEPT ![w] =
                        Error_init(cls, a.message, a.code, a.errors,
                                   a.error_type, a.reason)]
  /\ pc' = [pc EXCEPT ![w] = "raised_error"]
  /\ UNCHANGED <<cls, http_err, conv_arg, result, fragment>>

\* the framework raises (or abort() builds) an HTTPException among errs
RaiseHTTPException(w, errs) ==
  /\ pc[w] = "idle"
  /\ \E e \in errs : http_err' = [http_err EXCEPT ![w] = e]
  /\ pc' = [pc EXCEPT ![w] = "raised_http"]
  /\ UNCHANGED <<cls, app_args, app_err, conv_arg, result, fragment>>

\* Flask calls the handler registered for Error (lines 83, 113-114)
handle_error_exception(w) ==
  /\ pc[w] = "raised_error"
  /\ pc' = [pc EXCEPT ![w] = "handled_error"]
  /\ result' = [result EXCEPT ![w] = app_result(cls, app_err[w])]
  /\ UNCHANGED <<cls, app_args, app_err, http_err, conv_arg, fragment>>

\* the handler taking the headers out with data.pop("headers")
handle_http_exception_PopHeaders(w) ==
  /\ pc[w] = "raised_http"
  /\ pc' = [pc EXCEPT ![w] = "handled_http"]
  /\ result' = [result EXCEPT ![w] = http_result(cls, http_err[w])]
  /\ http_err' = [http_err EXCEPT ![w].data.keys = @ \ {"headers"},
                                  ![w].data.headers = NoHeaders]
  /\ UNCHANGED <<cls, app_args, app_err, conv_arg, fragment>>

\* Flask calls the handler registered for HTTPException (lines 82, 116-160)
handle_http_exception(w) ==
  /\ pc[w] = "raised_http"
  /\ pc' = [pc EXCEPT ![w] = "handled_http"]
  /\ result' = [result EXCEPT ![w] = http_result(cls, http_err[w])]
  /\ UNCHANGED <<cls, app_args, app_err, http_err, conv_arg, fragment>>

\* the static method applied to m (lines 85-111)
Convert(w, m) ==
  /\ conv_arg' = [conv_arg EXCEPT ![w] = m]
  /\ fragment' = [fragment EXCEPT ![w] = convert_webargs_errors(m)]

\* a direct call of the static method, on something that is no dict or on a
\* dict of at most n locations
CallConvert(w, n) ==
  /\ pc[w] = "idle"
  /\ \/ Convert(w, NotADict)
     \/ \E q \in DistinctSeqs(LocationTypes, n) :
          \E fv \in [1..Len(q) -> FieldsValues] :
            Convert(w, MessagesOver(q, fv))
  /\ pc' = [pc EXCEPT ![w] = "converted"]
  /\ UNCHANGED <<cls, app_args, app_err, http_err, result>>

\* the response is sent and the request's values are dropped
Respond(w) ==
  /\ pc[w] \in {"handled_error", "handled_http", "converted"}
  /\ pc' = [pc EXCEPT ![w] = "idle"]
  /\ app_args' = [app_args EXCEPT ![w] = NoArgs]
  /\ app_err' = [app_err EXCEPT ![w] = NoInst]
  /\ http_err' = [http_err EXCEPT ![w] = NoHttp]
  /\ conv_arg' = [conv_arg EXCEPT ![w] = NotADict]
  /\ result' = [result EXCEPT ![w] = NoResult]
  /\ fragment' = [fragment EXCEPT ![w] = NoFragment]
  /\ UNCHANGED cls

\* one worker, every input of the model
Next ==
  \/ RaiseError("w1", ErrorArgs)
  \/ RaiseHTTPException("w1", HttpErrors)
  \/ handle_error_exception("w1")
  \/ handle_http_exception("w1")
  \/ CallConvert("w1", MaxLocs)
  \/ Respond("w1")

Spec == Init /\ [][Next]_vars

\* two workers serving requests at the same time, a few inputs each
NextConcurrent ==
  \E w \in Workers :
    \/ RaiseError(w, FewErrorArgs)
    \/ RaiseHTTPException(w, FewHttpErrors)
    \/ handle_error_exception(w)
    \/ handle_http_exception(w)
    \/ CallConvert(w, 0)
    \/ Respond(w)

SpecConcurrent == Init /\ [][NextConcurrent]_vars

(***************************************************************************)
(* Properties.                                                             *)
(***************************************************************************)
DefaultMessage == StrVal("Something went wrong")
DefaultCode == IntVal(400)
DefaultErrorType == StrVal("ApiException")
SchemaMessage == StrVal("Request input schema is invalid")
SchemaErrorType == StrVal("SchemaFieldsException")
EnvelopeKeys == {"code", "message", "error_type", "reason", "errors"}

\* the adapter ran: a non-empty bag with "messages" and without "errors"
AdapterApplies(data) ==
  /\ data.t = "dict"
  /\ "messages" \in data.keys
  /\ "errors" \notin data.keys

\* C1: for every Error instance, handle_error_exception returns the rendered
\* instance, the instance's own status code (equal to the envelope's code)
\* and no header entries.
AppErrorStatusIsInstanceCode ==
  \A w \in Workers :
    pc[w] = "handled_error" =>
      /\ result[w].payload = to_dict(app_err[w])
      /\ result[w].status = app_err[w].status_code
      /\ result[w].status = result[w].payload.code
      /\ result[w].headers.h = <<>>

\* C2: an HTTP exception whose data has "messages" and no "errors" is
\* answered with status 400 and an envelope of code 400 and error_type
\* "SchemaFieldsException", whatever its own code and name, also when the
\* messages are malformed and give no sub-error.
MessagesNormalizeTo400 ==
  \A w \in Workers :
    (pc[w] = "handled_http" /\ AdapterApplies(http_err[w].data)) =>
      /\ result[w].status = IntVal(400)
      /\ result[w].payload.code = IntVal(400)
      /\ result[w].payload.error_type = SchemaErrorType

MessagesNormalizeTo400_Witness ==
  \E w \in Workers :
    /\ pc[w] = "handled_http"
    /\ AdapterApplies(http_err[w].data)
    /\ http_err[w].code = IntVal(404)
    /\ http_err[w].name = StrVal("Not Found")
    /\ http_err[w].data.messages = NotADict
    /\ "errors" \notin result[w].payload.keys
    /\ result[w].status = IntVal(400)

\* C3 as claimed, on a message that is a non-empty string: whenever the data
\* contains "message", the envelope's message is that message, whatever else
\* the data contains.
DataMessageAlwaysWins ==
  \A w \in Workers :
    (/\ pc[w] = "handled_http"
     /\ http_err[w].data.t = "dict"
     /\ "message" \in http_err[w].data.keys
     /\ http_err[w].data.message.t = "str"
     /\ http_err[w].data.message.s # "") =>
      result[w].payload.message = http_err[w].data.message

\* C3 amended: whenever the data contains "message", the envelope's message
\* is the adapter's fixed message if the data has "messages" and no "errors";
\* otherwise it is the string form of the data's message, or the default
\* message when the data's message is empty or None.  Handling "errors"
\* never overwrites it.
DataMessageUnlessAdapter ==
  \A w \in Workers :
    (/\ pc[w] = "handled_http"
     /\ http_err[w].data.t = "dict"
     /\ "message" \in http_err[w].data.keys) =>
      result[w].payload.message =
        IF AdapterApplies(http_err[w].data) THEN SchemaMessage
        ELSE IF Truthy(http_err[w].data.message)
          THEN StrVal(PyStr(http_err[w].data.message))
          ELSE DefaultMessage

DataMessageUnlessAdapter_Witness ==
  \E w \in Workers :
    /\ pc[w] = "handled_http"
    /\ AdapterApplies(http_err[w].data)
    /\ "message" \in http_err[w].data.keys
    /\ http_err[w].data.message = StrVal("Custom")
    /\ result[w].payload.message = SchemaMessage

HttpStatusMirrorsEnvelopeCode ==
  \A w \in Workers :
    pc[w] = "handled_http" => result[w].status = result[w].payload.code

\* C6: for every construction of an Error, the rendered envelope has code,
\* message and error_type with non-empty values, has "reason" exactly when a
\* non-empty reason was given, has "errors" exactly when a non-empty list was
\* given, never carries an empty reason or errors, and with no argument is
\* exactly {code: 400, message: "Something went wrong", error_type:
\* "ApiException"}.
RenderedEnvelopeIsMinimal ==
  \A w \in Workers :
    pc[w] = "handled_error" =>
      LET env == result[w].payload
          a == app_args[w]
      IN /\ {"code", "message", "error_type"} \subseteq env.keys
         /\ env.keys \subseteq EnvelopeKeys
         /\ Truthy(env.code)
         /\ env.message.t = "str" /\ env.message.s # ""
         /\ Truthy(env.error_type)
         /\ "reason" \in env.keys <=> Truthy(a.reason)
         /\ "reason" \in env.keys => env.reason = a.reason
         /\ "errors" \in env.keys <=> ListTruthy(a.errors)
         /\ "errors" \in env.keys => env.errors = a.errors
         /\ a = NoArgs =>
              env = [keys |-> {"code", "message", "error_type"},
                     code |-> DefaultCode, message |-> DefaultMessage,
                     error_type |-> DefaultErrorType,
                     reason |-> None, errors |-> NoList]

RenderedEnvelopeIsMinimal_Witness ==
  \E w \in Workers :
    /\ pc[w] = "handled_error"
    /\ app_args[w].reason = StrVal("")
    /\ app_args[w].errors = List(<<>>)
    /\ app_args[w].code = IntVal(404)
    /\ app_args[w].message = IntVal(7)
    /\ result[w].payload.keys = {"code", "message", "error_type"}

\* the (location, field) positions of a messages dict that hold a field
FieldPositions(m) ==
  UNION {{<<i, j>> : j \in 1..Len(m.locs[i].fields.items)} :
           i \in {k \in 1..Len(m.locs) : m.locs[k].fields.t = "dict"}}

\* how many positions come up to and including p in iteration order
Rank(m, p) ==
  Cardinality({q \in FieldPositions(m) :
                 q[1] < p[1] \/ (q[1] = p[1] /\ q[2] <= p[2])})

\* C7: the adapter's errors are the input flattened in iteration order:
\* locations in input order, fields in input order within each, one sub-error
\* per (location, field) with the messages passed through unsplit; a location
\* that is no mapping and an input that is no mapping give no sub-error; the
\* code, error_type and message are always 400, "SchemaFieldsException" and
\* "Request input schema is invalid".
AdapterFlattensInOrder ==
  \A w \in Workers :
    pc[w] = "converted" =>
      LET m == conv_arg[w]
          out == fragment[w]
      IN /\ out.code = IntVal(400)
         /\ out.error_type = SchemaErrorType
         /\ out.message = SchemaMessage
         /\ out.errors.t = "list"
         /\ m.t # "dict" => out.errors.l = <<>>
         /\ m.t = "dict" =>
              /\ Len(out.errors.l) = Cardinality(FieldPositions(m))
              /\ \A p \in FieldPositions(m) :
                   out.errors.l[Rank(m, p)] =
                     [location |-> m.locs[p[1]].fields.items[p[2]].field,
                      location_type |-> m.locs[p[1]].location_type,
                      messages |-> m.locs[p[1]].fields.items[p[2]].messages]

AdapterFlattensInOrder_Witness ==
  \E w \in Workers :
    /\ pc[w] = "converted"
    /\ conv_arg[w].t = "dict"
    /\ Len(conv_arg[w].locs) = 2
    /\ conv_arg[w].locs[1].fields.t = "other"
    /\ conv_arg[w].locs[2].location_type = "json"
    /\ conv_arg[w].locs[2].fields.t = "dict"
    /\ Len(conv_arg[w].locs[2].fields.items) = 2
    /\ conv_arg[w].locs[2].fields.items[1].field = "name"
    /\ conv_arg[w].locs[2].fields.items[2].field = "age"
    /\ Len(fragment[w].errors.l) = 2
    /\ fragment[w].errors.l[2].messages =
         MsgList(<<"Not a valid integer.", "Must be positive.">>)

\* C8 as claimed: an HTTP exception whose data is absent or empty is answered
\* with its own code as status, empty headers, and an envelope of exactly
\* code, error_type and message: the exception's code, the exception's name
\* and "Something went wrong".
BareExceptionKeepsCodeAndName ==
  \A w \in Workers :
    (pc[w] = "handled_http" /\ ~DataTruthy(http_err[w].data)) =>
      /\ result[w].status = http_err[w].code
      /\ result[w].headers = Headers(<<>>)
      /\ result[w].payload.keys = {"code", "message", "error_type"}
      /\ result[w].payload.code = http_err[w].code
      /\ result[w].payload.error_type = http_err[w].name
      /\ result[w].payload.message = DefaultMessage

\* C8 amended: an HTTP exception whose data is absent or empty is answered
\* with its own code as status, empty headers, and an envelope of exactly
\* code, error_type and message: the exception's code, or 400 when that is
\* absent or zero; the exception's name, or "ApiException" when that is
\* empty; and "Something went wrong".
BareExceptionEnvelope ==
  \A w \in Workers :
    (pc[w] = "handled_http" /\ ~DataTruthy(http_err[w].data)) =>
      /\ result[w].status = http_err[w].code
      /\ result[w].headers = Headers(<<>>)
      /\ result[w].payload.keys = {"code", "message", "error_type"}
      /\ result[w].payload.code = Or(http_err[w].code, DefaultCode)
      /\ result[w].payload.error_type = Or(http_err[w].name, DefaultErrorType)
      /\ result[w].payload.message = DefaultMessage

BareExceptionEnvelope_Witness ==
  \E w \in Workers :
    /\ pc[w] = "handled_http"
    /\ http_err[w].data.t = "dict"
    /\ http_err[w].data.keys = {}
    /\ http_err[w].code = IntVal(404)
    /\ http_err[w].name = StrVal("Not Found")
    /\ result[w].payload.code = IntVal(404)
    /\ result[w].payload.error_type = StrVal("Not Found")

\* C9: the headers returned for an HTTP exception are the data's "headers"
\* whenever the data contains "headers", and the empty mapping otherwise,
\* whichever of "message", "errors", "messages" are present; the envelope
\* has no key beyond its five.
HeadersComeFromData ==
  \A w \in Workers :
    pc[w] = "handled_http" =>
      /\ result[w].headers =
           IF http_err[w].data.t = "dict" /\ "headers" \in http_err[w].data.keys
             THEN http_err[w].data.headers
             ELSE Headers(<<>>)
      /\ result[w].payload.keys \subseteq EnvelopeKeys

HeadersComeFromData_Witness ==
  \E w \in Workers :
    /\ pc[w] = "handled_http"
    /\ {"headers", "message", "messages"} \subseteq http_err[w].data.keys
    /\ http_err[w].data.headers = RetryHeaders
    /\ result[w].headers = RetryHeaders

\* what one worker holds
Slot(w) ==
  <<pc[w], app_args[w], app_err[w], http_err[w], conv_arg[w], result[w], fragment[w]>>

\* C10: dispatch is stateless.  In every step of any interleaving of two
\* workers, the class attributes stay the defaults, a handler leaves the
\* error it was given unchanged and returns what it returns for that error
\* alone, and a worker that did not step keeps everything it holds.
StatelessDispatch ==
  [][/\ cls' = ClassDefaults
     /\ \A w \in Workers :
          /\ (pc[w] = "raised_http" /\ pc'[w] = "handled_http") =>
               /\ http_err'[w] = http_err[w]
               /\ result'[w] = http_result(ClassDefaults, http_err[w])
          /\ (pc[w] = "raised_error" /\ pc'[w] = "handled_error") =>
               /\ app_err'[w] = app_err[w]
               /\ result'[w] =
                    app_result(ClassDefaults,
                               Error_init(ClassDefaults, app_args[w].message,
                                          app_args[w].code, app_args[w].errors,
                                          app_args[w].error_type, app_args[w].reason))
          /\ pc'[w] = pc[w] => Slot(w)' = Slot(w)]_vars

StatelessDispatch_Witness ==
  /\ pc["w1"] = "handled_http"
  /\ http_err["w1"].data.keys = {"message", "messages", "headers"}
  /\ result["w1"].status = IntVal(400)
  /\ pc["w2"] = "handled_error"
  /\ app_args["w2"].code = IntVal(404)
  /\ result["w2"].payload.code = IntVal(404)

====
